---- MODULE Spec2Model ----
(***************************************************************************)
(* Model of assets/scripts/image_processor.py: process_image (the image    *)
(* normalizer) and main (the batch driver).                                *)
(*                                                                         *)
(* Python's "/" on ints and floats and "*" on an int and a float are       *)
(* IEEE-754 binary64 operations, and int() truncates.  They are modelled   *)
(* bit-exactly: a float is a 53-bit significand with a binary exponent,    *)
(* every operation computes the exact result and rounds it to nearest,     *)
(* ties to even.  Significands do not fit a machine integer of the model   *)
(* checker, so they are kept as little-endian sequences of base-Base       *)
(* digits (Big numbers).                                                   *)
(***************************************************************************)
EXTENDS Integers, Sequences, FiniteSets, TLC

(***************************************************************************)
(* Bounds of the model.                                                    *)
(***************************************************************************)
MaxWidth == 15
MaxHeight == 11

(***************************************************************************)
(* Big naturals: little-endian digit sequences of length NLimbs.           *)
(***************************************************************************)
Base == 65536
NLimbs == 5
MantBits == 53

RECURSIVE BigMulAdd(_, _, _)
\* a * n + c, digit by digit from the least significant one
BigMulAdd(a, n, c) ==
    IF a = <<>> THEN <<>>
    ELSE LET t == n * Head(a) + c
         IN  <<t % Base>> \o BigMulAdd(Tail(a), n, t \div Base)

RECURSIVE BigOfRec(_, _)
BigOfRec(n, k) ==
    IF k = 0 THEN <<>> ELSE <<n % Base>> \o BigOfRec(n \div Base, k - 1)

BigOf(n) == BigOfRec(n, NLimbs)

RECURSIVE BigCmpFrom(_, _, _)
\* -1, 0, 1 as a < b, a = b, a > b, comparing from digit i downwards
BigCmpFrom(a, b, i) ==
    IF i = 0 THEN 0
    ELSE IF a[i] > b[i] THEN 1
    ELSE IF a[i] < b[i] THEN -1
    ELSE BigCmpFrom(a, b, i - 1)

BigCmp(a, b) == BigCmpFrom(a, b, NLimbs)
BigGE(a, b) == BigCmp(a, b) >= 0

RECURSIVE BigSubRec(_, _, _)
\* a - b - borrow for a >= b
BigSubRec(a, b, borrow) ==
    IF a = <<>> THEN <<>>
    ELSE LET t == Head(a) - Head(b) - borrow
         IN  IF t < 0 THEN <<t + Base>> \o BigSubRec(Tail(a), Tail(b), 1)
                      ELSE <<t>> \o BigSubRec(Tail(a), Tail(b), 0)

BigSub(a, b) == BigSubRec(a, b, 0)

RECURSIVE BigDivFrom(_, _, _, _)
\* floor(a / n) for a small n, from digit i downwards with the remainder carried down
BigDivFrom(a, n, i, carry) ==
    IF i = 0 THEN <<>>
    ELSE LET t == a[i] + carry * Base
         IN  Append(BigDivFrom(a, n, i - 1, t % n), t \div n)

BigHalf(a) == BigDivFrom(a, 2, NLimbs, 0)
BigOdd(a) == a[1] % 2 = 1
BigDbl(a, bit) == BigMulAdd(a, 2, bit)

\* shifts move at most ChunkBits bits at a time, so that a digit times
\* 2^ChunkBits stays a machine integer
ChunkBits == 13

RECURSIVE BigShl(_, _)
BigShl(a, k) ==
    IF k <= ChunkBits THEN BigMulAdd(a, 2^k, 0)
    ELSE BigShl(BigMulAdd(a, 2^ChunkBits, 0), k - ChunkBits)

RECURSIVE BigShr(_, _)
BigShr(a, k) ==
    IF k <= ChunkBits THEN BigDivFrom(a, 2^k, NLimbs, 0)
    ELSE BigShr(BigDivFrom(a, 2^ChunkBits, NLimbs, 0), k - ChunkBits)

MantMin == BigShl(BigOf(1), MantBits - 1)
MantLim == BigShl(BigOf(1), MantBits)

\* the value of a Big that fits one machine integer
BigToNat(a) == a[1] + Base * a[2]

RECURSIVE BitLen(_)
\* the number of binary digits of n >= 1
BitLen(n) == IF n < 2 THEN 1 ELSE 1 + BitLen(n \div 2)

(***************************************************************************)
(* binary64 values >= 0: zero, or man * 2^(exp - (MantBits-1)) with        *)
(* MantMin <= man < MantLim.                                               *)
(***************************************************************************)
FZero == [zero |-> TRUE, exp |-> 0, man |-> BigOf(0)]

\* round the truncated significand q up when the discarded part says so
FPack(q, e, up) ==
    LET m == IF up THEN BigMulAdd(q, 1, 1) ELSE q
    IN  IF BigGE(m, MantLim)
        THEN [zero |-> FALSE, exp |-> e + 1, man |-> MantMin]
        ELSE [zero |-> FALSE, exp |-> e, man |-> m]

RECURSIVE ScaleUp(_, _, _)
\* the largest k with d * 2^k <= n  (n >= d)
ScaleUp(n, d, k) ==
    IF 2 * d <= n THEN ScaleUp(n, 2 * d, k + 1) ELSE [k |-> k, n |-> n, d |-> d]

RECURSIVE ScaleDown(_, _, _)
\* the least k with n * 2^k >= d  (n < d)
ScaleDown(n, d, k) ==
    IF n < d THEN ScaleDown(2 * n, d, k + 1) ELSE [k |-> -k, n |-> n, d |-> d]

RECURSIVE DivLoop(_, _, _, _)
\* k more quotient bits of r / d (r < d) appended to q, ChunkBits at a time
DivLoop(q, r, d, k) ==
    IF k = 0 THEN [q |-> q, r |-> r]
    ELSE LET c == IF k < ChunkBits THEN k ELSE ChunkBits
             t == r * 2^c
         IN  DivLoop(BigMulAdd(q, 2^c, t \div d), t % d, d, k - c)

\* n / d for ints n >= 0, d > 0: Python's true division, correctly rounded
IntTrueDiv(n, d) ==
    IF n = 0 THEN FZero
    ELSE LET s == IF n >= d THEN ScaleUp(n, d, 0) ELSE ScaleDown(n, d, 0)
             x == DivLoop(BigOf(1), s.n - s.d, s.d, MantBits - 1)
             up == (2 * x.r > s.d) \/ (2 * x.r = s.d /\ BigOdd(x.q))
         IN  FPack(x.q, s.k, up)

\* float(n) for an int n >= 0 (exact below 2^MantBits)
IntToFloat(n) ==
    IF n = 0 THEN FZero
    ELSE [zero |-> FALSE, exp |-> BitLen(n) - 1,
          man |-> BigShl(BigOf(n), MantBits - BitLen(n))]

RECURSIVE NormDown(_, _, _, _)
\* a Big shifted right until it is a significand, with the last bit shifted
\* out (guard) and whether any earlier one was set (sticky)
NormDown(a, e, guard, sticky) ==
    IF ~BigGE(a, MantLim) THEN [man |-> a, exp |-> e, guard |-> guard, sticky |-> sticky]
    ELSE NormDown(BigHalf(a), e + 1, BigOdd(a), sticky \/ guard)

\* x * y for floats, x the float of the int n: n * y exactly, then rounded
FloatMulInt(n, y) ==
    IF n = 0 \/ y.zero THEN FZero
    ELSE LET x == NormDown(BigMulAdd(y.man, n, 0), y.exp, FALSE, FALSE)
             up == x.guard /\ (x.sticky \/ BigOdd(x.man))
         IN  FPack(x.man, x.exp, up)

\* one more quotient bit of s.r / d (Big s.r < d) appended to s.q
FDivStep(s, d) ==
    LET t == BigDbl(s.r, 0)
    IN  IF BigGE(t, d) THEN [q |-> BigDbl(s.q, 1), r |-> BigSub(t, d)]
                       ELSE [q |-> BigDbl(s.q, 0), r |-> t]

RECURSIVE FDivSteps(_, _, _)
\* k steps of FDivStep, the first half evaluated before the second begins
\* (a remainder never reaches the divisor, so the test on it always fails)
FDivSteps(s, d, k) ==
    IF k = 0 THEN s
    ELSE IF k = 1 THEN FDivStep(s, d)
    ELSE LET s1 == FDivSteps(s, d, k \div 2)
         IN  IF BigGE(s1.r, d) THEN s1 ELSE FDivSteps(s1, d, k - (k \div 2))

\* x / y for floats x >= 0, y > 0
FloatDiv(x, y) ==
    IF x.zero THEN FZero
    ELSE LET ge == BigGE(x.man, y.man)
             r0 == IF ge THEN BigSub(x.man, y.man) ELSE BigSub(BigDbl(x.man, 0), y.man)
             e0 == x.exp - y.exp - (IF ge THEN 0 ELSE 1)
             x1 == FDivSteps([q |-> BigOf(1), r |-> r0], y.man, MantBits - 1)
             c == BigCmp(BigDbl(x1.r, 0), y.man)
             up == c > 0 \/ (c = 0 /\ BigOdd(x1.q))
         IN  FPack(x1.q, e0, up)

\* x > y for floats >= 0
FloatGT(x, y) ==
    IF x.zero THEN FALSE
    ELSE IF y.zero THEN TRUE
    ELSE IF x.exp # y.exp THEN x.exp > y.exp
    ELSE BigCmp(x.man, y.man) > 0

\* int(x): truncation towards zero
FloatToInt(x) ==
    IF x.zero \/ x.exp < 0 THEN 0
    ELSE BigToNat(BigShr(x.man, (MantBits - 1) - x.exp))

(***************************************************************************)
(* Strings are sequences of one-character strings.                         *)
(***************************************************************************)
UpperToLower ==
    [c \in {"A", "B", "C", "D", "E", "F", "G", "H", "I", "J", "K", "L", "M",
            "N", "O", "P", "Q", "R", "S", "T", "U", "V", "W", "X", "Y", "Z"} |->
        CASE c = "A" -> "a" [] c = "B" -> "b" [] c = "C" -> "c" [] c = "D" -> "d"
          [] c = "E" -> "e" [] c = "F" -> "f" [] c = "G" -> "g" [] c = "H" -> "h"
          [] c = "I" -> "i" [] c = "J" -> "j" [] c = "K" -> "k" [] c = "L" -> "l"
          [] c = "M" -> "m" [] c = "N" -> "n" [] c = "O" -> "o" [] c = "P" -> "p"
          [] c = "Q" -> "q" [] c = "R" -> "r" [] c = "S" -> "s" [] c = "T" -> "t"
          [] c = "U" -> "u" [] c = "V" -> "v" [] c = "W" -> "w" [] c = "X" -> "x"
          [] c = "Y" -> "y" [] c = "Z" -> "z"]

\* str.lower()
Lower(s) == [k \in 1..Len(s) |-> IF s[k] \in DOMAIN UpperToLower THEN UpperToLower[s[k]] ELSE s[k]]

\* str.endswith(suffix)
EndsWith(s, suffix) ==
    /\ Len(s) >= Len(suffix)
    /\ SubSeq(s, Len(s) - Len(suffix) + 1, Len(s)) = suffix

RECURSIVE StripSlashes(_)
\* a path without its trailing separators
StripSlashes(p) ==
    IF p # <<>> /\ p[Len(p)] = "/" THEN StripSlashes(SubSeq(p, 1, Len(p) - 1)) ELSE p

RECURSIVE LastComponent(_)
\* what follows the last separator
LastComponent(p) ==
    IF p = <<>> \/ p[Len(p)] = "/" THEN <<>>
    ELSE Append(LastComponent(SubSeq(p, 1, Len(p) - 1)), p[Len(p)])

\* Path(image_path).name
PathName(p) == LastComponent(StripSlashes(p))

\* os.path.join(a, b) for a relative b
PathJoin(a, b) == IF a = <<>> \/ a[Len(a)] = "/" THEN a \o b ELSE a \o <<"/">> \o b

(***************************************************************************)
(* process_image: the pure parts                                           *)
(***************************************************************************)
DefaultWidth == 1280
DefaultHeight == 720
DefaultDpi == 72

\* img.mode after lines 23-24
ConvertedMode(mode) == IF mode \in {"RGBA", "P"} THEN "RGB" ELSE mode

\* lines 27-40: the two aspect ratios and the size to resize to
ResizeDims(img_width, img_height, target_width, target_height) ==
    LET ar == IntTrueDiv(target_width, target_height)
        cur == IntTrueDiv(img_width, img_height)
    IN  IF FloatGT(cur, ar)
        THEN [aspect_ratio |-> ar, current_aspect_ratio |-> cur,
              new_width |-> target_width,
              new_height |-> FloatToInt(FloatDiv(IntToFloat(target_width), cur))]
        ELSE [aspect_ratio |-> ar, current_aspect_ratio |-> cur,
              new_width |-> FloatToInt(FloatMulInt(target_height, cur)),
              new_height |-> target_height]

\* the canvas with height and width exchanged
CanvasSizeSwapped(target_width, target_height) == <<target_height, target_width>>

\* line 46: the size of the canvas
CanvasSize(target_width, target_height) == <<target_width, target_height>>

\* the offsets without the halving
PasteOffsetNotHalved(target_width, target_height, new_width, new_height) ==
    <<target_width - new_width, target_height - new_height>>

\* lines 49-50: (paste_x, paste_y); // is floor division
PasteOffset(target_width, target_height, new_width, new_height) ==
    <<(target_width - new_width) \div 2, (target_height - new_height) \div 2>>

\* lines 57-58
OutputFilename(image_path) == <<"p", "r", "o", "c", "e", "s", "s", "e", "d", "_">> \o PathName(image_path)

\* the extension test without lower()
SaveFormatCaseSensitive(input_filename) ==
    IF EndsWith(input_filename, <<".", "j", "p", "g">>) THEN "JPEG" ELSE "PNG"

\* line 64
SaveFormat(input_filename) ==
    IF EndsWith(Lower(input_filename), <<".", "j", "p", "g">>) THEN "JPEG" ELSE "PNG"

\* a handler for I/O errors only
ExceptionCaughtIOOnly(e) ==
    e \in {"No such file or directory", "cannot identify image file", "save failed"}

\* line 72: "except Exception" catches every exception the body raises
ExceptionCaught(e) == TRUE

(***************************************************************************)
(* State                                                                   *)
(***************************************************************************)
VARIABLES
    images_dir,     \* whether base_dir/images exists
    processed,      \* the output directory: "absent", "dir", or "file" (a non-directory)
    files,          \* the image files on disk: path |-> content
    outputs,        \* the files new_img.save has written
    console,        \* the lines printed so far
    pc,             \* where control is
    caller,         \* who called process_image: "main", or "direct" (an importer)
    i,              \* main's position in project_images
    image_path, output_dir, target_width, target_height, target_dpi,
    img, aspect_ratio, current_aspect_ratio, new_width, new_height, new_img,
    exc             \* the exception being raised, "none" without one

env == <<images_dir, files>>
args == <<image_path, output_dir, target_width, target_height, target_dpi>>
dims == <<aspect_ratio, current_aspect_ratio, new_width, new_height>>
vars == <<images_dir, processed, files, outputs, console, pc, caller, i,
          image_path, output_dir, target_width, target_height, target_dpi,
          img, aspect_ratio, current_aspect_ratio, new_width, new_height, new_img, exc>>

NoImg == [kind |-> "none"]
Corrupt == [kind |-> "corrupt"]
Picture(w, h, mode, format) ==
    [kind |-> "image", width |-> w, height |-> h, mode |-> mode, format |-> format]

\* lines 85-90
project_images == <<<<"s", "i", "h", ".", "p", "n", "g">>, <<"p", "e", "r", "s", "o", "n", "a", "l", "_", "c", "a", "p", "s", "u", "l", "e", ".", "p", "n", "g">>, <<"d", "e", "v", "_", "s", "e", "a", "r", "c", "h", ".", "p", "n", "g">>, <<"R", "e", "s", "t", "A", "P", "I", ".", "j", "p", "g">>>>

\* lines 77-79, relative to base_dir
image_dir == <<"i", "m", "a", "g", "e", "s">>
main_output_dir == PathJoin(image_dir, <<"p", "r", "o", "c", "e", "s", "s", "e", "d">>)

\* the locals of process_image before the body has bound them
LocalsUnbound ==
    /\ img' = NoImg
    /\ aspect_ratio' = FZero
    /\ current_aspect_ratio' = FZero
    /\ new_width' = 0
    /\ new_height' = 0
    /\ new_img' = NoImg

(***************************************************************************)
(* Inputs                                                                  *)
(***************************************************************************)
\* pictures of the sizes and modes screenshots come in, and degenerate ones
SamplePictures ==
    { Picture(1280, 720, "RGB", "PNG"), Picture(1920, 1080, "RGBA", "PNG"),
      Picture(800, 600, "P", "GIF"), Picture(2560, 1080, "RGB", "JPEG"),
      Picture(1366, 768, "L", "PNG"), Picture(7, 5, "RGB", "JPEG"),
      Picture(4000, 1, "RGB", "PNG"), Picture(1, 3000, "RGBA", "PNG") }

\* what the four project files may hold
ProjectPictures ==
    { Picture(1920, 1080, "RGBA", "PNG"), Picture(800, 600, "RGB", "JPEG") }

\* paths a direct caller passes
DirectPaths ==
    { <<"f", "o", "o", ".", "j", "p", "g">>, <<"p", "i", "c", "s", "/", "F", "O", "O", ".", "J", "P", "G">>, <<"f", "o", "o", ".", "p", "n", "g">>, <<"f", "o", "o", ".", "j", "p", "e", "g">>, <<"a", "/", "b", "/", "F", "o", "o", ".", "J", "p", "G">>, <<"x", ".", "j", "p", "g", "/", "s", "h", "o", "t", ".", "p", "n", "g">>, <<".", "j", "p", "g">>, <<"d", "/", "f", "o", "o", "j", "p", "g">> }

SizesPath == <<"a", ".", "p", "n", "g">>
DirectOutputDir == <<"o", "u", "t">>

ProjectPaths == {PathJoin(image_dir, project_images[k]) : k \in 1..Len(project_images)}

\* main is run: any state of the images directory
Init ==
    /\ images_dir \in BOOLEAN
    /\ processed \in (IF images_dir THEN {"absent", "dir", "file"} ELSE {"absent"})
    /\ \E present \in (IF images_dir THEN SUBSET ProjectPaths ELSE {{}}) :
            files \in [present -> {Corrupt} \cup ProjectPictures]
    /\ outputs = {}
    /\ console = <<>>
    /\ pc = "main_mkdir"
    /\ caller = "main"
    /\ i = 1
    /\ image_path = <<>>
    /\ output_dir = <<>>
    /\ target_width = 0
    /\ target_height = 0
    /\ target_dpi = 0
    /\ img = NoImg
    /\ aspect_ratio = FZero
    /\ current_aspect_ratio = FZero
    /\ new_width = 0
    /\ new_height = 0
    /\ new_img = NoImg
    /\ exc = "none"

\* process_image is called on one file
InitCall ==
    /\ images_dir = TRUE
    /\ outputs = {}
    /\ console = <<>>
    /\ pc = "pi_open"
    /\ caller = "direct"
    /\ i = 1
    /\ output_dir = DirectOutputDir
    /\ img = NoImg
    /\ aspect_ratio = FZero
    /\ current_aspect_ratio = FZero
    /\ new_width = 0
    /\ new_height = 0
    /\ new_img = NoImg
    /\ exc = "none"

\* ... with the default target, on any path and any content
InitPaths ==
    /\ InitCall
    /\ image_path \in DirectPaths
    /\ files \in [{image_path} -> {Corrupt} \cup SamplePictures] \cup {<<>>}
    /\ processed \in {"absent", "dir"}
    /\ target_width = DefaultWidth
    /\ target_height = DefaultHeight
    /\ target_dpi = DefaultDpi

\* ... with any small target, on a picture of any small size
InitSizes ==
    /\ InitCall
    /\ image_path = SizesPath
    /\ \E w \in 1..MaxWidth, h \in 1..MaxHeight :
            files = [p \in {image_path} |-> Picture(w, h, "RGB", "PNG")]
    /\ processed = "dir"
    /\ target_width \in 0..MaxWidth
    /\ target_height \in 0..MaxHeight
    /\ target_dpi = DefaultDpi

InitImg == InitPaths \/ InitSizes

(***************************************************************************)
(* process_image                                                           *)
(***************************************************************************)
\* an exception leaves the try body: line 72 catches it, or it leaves the function
Raise(e) ==
    /\ exc' = e
    /\ pc' = IF ExceptionCaught(e) THEN "pi_except"
             ELSE IF caller = "main" THEN "main_raised" ELSE "propagated"

\* process_image returns to its caller; its locals are gone
Return ==
    /\ pc' = IF caller = "main" THEN "main_loop" ELSE "idle"
    /\ i' = IF caller = "main" THEN i + 1 ELSE i
    /\ exc' = "none"
    /\ LocalsUnbound

\* lines 21-24: Image.open, and img.convert('RGB') for RGBA and P
PiOpen ==
    /\ pc = "pi_open"
    /\ IF image_path \notin DOMAIN files
       THEN Raise("No such file or directory") /\ UNCHANGED img
       ELSE IF files[image_path].kind # "image"
       THEN Raise("cannot identify image file") /\ UNCHANGED img
       ELSE LET f == files[image_path]
            IN  \E ok \in (IF f.mode \in {"RGBA", "P"} THEN BOOLEAN ELSE {TRUE}) :
                    IF ok
                    THEN /\ img' = [f EXCEPT !.mode = ConvertedMode(f.mode)]
                         /\ pc' = "pi_aspect"
                         /\ UNCHANGED exc
                    ELSE Raise("convert failed") /\ UNCHANGED img
    /\ UNCHANGED <<env, processed, outputs, console, caller, i, args, dims, new_img>>

\* lines 27-40
PiAspect ==
    /\ pc = "pi_aspect"
    /\ IF target_height = 0
       THEN Raise("division by zero") /\ UNCHANGED dims
       ELSE \E d \in {ResizeDims(img.width, img.height, target_width, target_height)} :
                /\ aspect_ratio' = d.aspect_ratio
                /\ current_aspect_ratio' = d.current_aspect_ratio
                /\ new_width' = d.new_width
                /\ new_height' = d.new_height
                /\ pc' = "pi_resize"
                /\ UNCHANGED exc
    /\ UNCHANGED <<env, processed, outputs, console, caller, i, args, img, new_img>>

\* line 43: img.resize refuses an empty size
PiResize ==
    /\ pc = "pi_resize"
    /\ IF new_width < 1 \/ new_height < 1
       THEN Raise("height and width must be > 0") /\ UNCHANGED img
       ELSE \E ok \in BOOLEAN :
                IF ok
                THEN /\ img' = [img EXCEPT !.width = new_width, !.height = new_height]
                     /\ pc' = "pi_new"
                     /\ UNCHANGED exc
                ELSE Raise("resize failed") /\ UNCHANGED img
    /\ UNCHANGED <<env, processed, outputs, console, caller, i, args, dims, new_img>>

\* line 46
PiNew ==
    /\ pc = "pi_new"
    /\ \E ok \in BOOLEAN :
            IF ok
            THEN /\ new_img' = [kind |-> "canvas",
                                size |-> CanvasSize(target_width, target_height),
                                pasted |-> <<>>, paste |-> <<>>, dpi |-> 0]
                 /\ pc' = "pi_paste"
                 /\ UNCHANGED exc
            ELSE Raise("new failed") /\ UNCHANGED new_img
    /\ UNCHANGED <<env, processed, outputs, console, caller, i, args, dims, img>>

\* lines 49-54
PiPaste ==
    /\ pc = "pi_paste"
    /\ \E ok \in BOOLEAN :
            IF ok
            THEN /\ new_img' = [new_img EXCEPT
                        !.pasted = <<img.width, img.height>>,
                        !.paste = PasteOffset(target_width, target_height, new_width, new_height),
                        !.dpi = target_dpi]
                 /\ pc' = "pi_save"
                 /\ UNCHANGED exc
            ELSE Raise("paste failed") /\ UNCHANGED new_img
    /\ UNCHANGED <<env, processed, outputs, console, caller, i, args, dims, img>>

\* what line 70 prints
SuccessLine(input_filename, output_filename) ==
    [kind |-> "success", input |-> input_filename, output |-> output_filename]

\* what line 73 prints
ErrorLine(path, e) == [kind |-> "error", path |-> path, text |-> e]

\* what line 98 prints
NotFoundLine(image_name) == [kind |-> "notfound", name |-> image_name]

\* lines 57-70: the output file is written whole, or save raises and leaves none
PiSave ==
    /\ pc = "pi_save"
    /\ LET input_filename == PathName(image_path)
           output_filename == OutputFilename(image_path)
           output_path == PathJoin(output_dir, output_filename)
       IN  IF processed # "dir"
           THEN /\ Raise("No such file or directory")
                /\ UNCHANGED <<outputs, console, i, img, dims, new_img>>
           ELSE \E ok \in BOOLEAN :
                    IF ok
                    THEN /\ outputs' = {o \in outputs : o.path # output_path} \cup
                                {[path |-> output_path,
                                  format |-> SaveFormat(input_filename),
                                  size |-> new_img.size,
                                  dpi |-> target_dpi]}
                         /\ console' = Append(console, SuccessLine(input_filename, output_filename))
                         /\ Return
                    ELSE /\ Raise("save failed")
                         /\ UNCHANGED <<outputs, console, i, img, dims, new_img>>
    /\ UNCHANGED <<env, processed, caller, args>>

\* lines 72-73
PiExcept ==
    /\ pc = "pi_except"
    /\ console' = Append(console, ErrorLine(image_path, exc))
    /\ Return
    /\ UNCHANGED <<env, processed, outputs, caller, args>>

(***************************************************************************)
(* main                                                                    *)
(***************************************************************************)
\* line 82: output_dir.mkdir(exist_ok=True)
MainMkdir ==
    /\ pc = "main_mkdir"
    /\ IF ~images_dir
       THEN /\ pc' = "main_raised" /\ exc' = "No such file or directory"
            /\ UNCHANGED processed
       ELSE IF processed = "file"
       THEN /\ pc' = "main_raised" /\ exc' = "File exists"
            /\ UNCHANGED processed
       ELSE /\ processed' = "dir"
            /\ pc' = "main_loop"
            /\ UNCHANGED exc
    /\ UNCHANGED <<env, outputs, console, caller, i, args, img, dims, new_img>>

\* lines 93-98: one turn of the loop, up to the call or the "not found" line
MainLoop ==
    /\ pc = "main_loop"
    /\ IF i > Len(project_images)
       THEN /\ pc' = "main_done"
            /\ UNCHANGED <<console, i, args>>
       ELSE LET image_name == project_images[i]
                path == PathJoin(image_dir, image_name)
            IN  IF path \in DOMAIN files
                THEN /\ image_path' = path
                     /\ output_dir' = main_output_dir
                     /\ target_width' = DefaultWidth
                     /\ target_height' = DefaultHeight
                     /\ target_dpi' = DefaultDpi
                     /\ pc' = "pi_open"
                     /\ UNCHANGED <<console, i>>
                ELSE /\ console' = Append(console, NotFoundLine(image_name))
                     /\ i' = i + 1
                     /\ UNCHANGED <<pc, args>>
    /\ UNCHANGED <<env, processed, outputs, caller, img, dims, new_img, exc>>

NextImg == PiOpen \/ PiAspect \/ PiResize \/ PiNew \/ PiPaste \/ PiSave \/ PiExcept

Next == MainMkdir \/ MainLoop \/ NextImg

\* a run of the script
Spec == Init /\ [][Next]_vars

\* a call of process_image
SpecImg == InitImg /\ [][NextImg]_vars

(***************************************************************************)
(* Properties                                                              *)
(***************************************************************************)
InBody == pc \in {"pi_open", "pi_aspect", "pi_resize", "pi_new", "pi_paste", "pi_save", "pi_except"}
Sized == pc \in {"pi_resize", "pi_new", "pi_paste", "pi_save"}
Source == files[image_path]
Abs(n) == IF n < 0 THEN -n ELSE n

\* C1: the canvas, and every file saved from it, is exactly target_width x
\* target_height, whatever the source size and whichever branch sized the picture.
C1_CanvasIsTarget ==
    /\ new_img.kind = "canvas" => new_img.size = <<target_width, target_height>>
    /\ \A o \in outputs : o.size = <<target_width, target_height>>

\* a file saved from a proportionally wider source of another size than the canvas
C1_Witness ==
    \E o \in outputs :
        /\ Source.width * target_height > Source.height * target_width
        /\ <<Source.width, Source.height>> # o.size
        /\ target_width # target_height

\* C2: a source of the target's aspect ratio takes the taller-or-equal branch
\* and is resized to exactly (target_width, target_height), pasted at (0, 0),
\* so that it fills the canvas.
C2_AspectEqualFills ==
    (Sized /\ Source.width * target_height = Source.height * target_width) =>
        /\ ~FloatGT(current_aspect_ratio, aspect_ratio)
        /\ new_width = target_width
        /\ new_height = target_height
        /\ pc = "pi_save" => new_img.paste = <<0, 0>>

\* C3: a source of another aspect ratio is padded on one axis only and centred
\* on it: the two bars differ by at most one pixel.
C3_CentredOnOneAxis ==
    LET wider == Source.width * target_height > Source.height * target_width
        taller == Source.width * target_height < Source.height * target_width
    IN  /\ Sized =>
            /\ wider => (new_width = target_width /\ FloatGT(current_aspect_ratio, aspect_ratio))
            /\ taller => (new_height = target_height /\ ~FloatGT(current_aspect_ratio, aspect_ratio))
        /\ pc = "pi_save" =>
            LET paste_x == new_img.paste[1]
                paste_y == new_img.paste[2]
            IN  /\ new_img.pasted = <<new_width, new_height>>
                /\ wider =>
                        /\ paste_x = 0
                        /\ Abs(paste_y - (target_height - new_height - paste_y)) <= 1
                /\ taller =>
                        /\ paste_y = 0
                        /\ Abs(paste_x - (target_width - new_width - paste_x)) <= 1

\* a wider source pasted below a top bar one pixel thinner than the bottom bar
C3_Witness ==
    /\ pc = "pi_save"
    /\ Source.width * target_height > Source.height * target_width
    /\ new_img.paste[2] >= 1
    /\ target_height - new_height - new_img.paste[2] = new_img.paste[2] + 1

C4_IsJpgName(n) ==
    /\ Len(n) >= 4
    /\ n[Len(n) - 3] = "."
    /\ n[Len(n) - 2] \in {"j", "J"}
    /\ n[Len(n) - 1] \in {"p", "P"}
    /\ n[Len(n)] \in {"g", "G"}

\* C4: a saved file is output_dir/processed_N, N the source file's name, and
\* is JPEG exactly when N ends in ".jpg" in any letter case, else PNG:
\* foo.jpg and FOO.JPG are JPEG, foo.png and foo.jpeg are PNG.
C4_NameAndFormat ==
    \A o \in outputs :
        /\ \E k \in 1..Len(image_path) :
              LET n == SubSeq(image_path, k, Len(image_path))
              IN  /\ k = 1 \/ image_path[k - 1] = "/"
                  /\ \A j \in 1..Len(n) : n[j] # "/"
                  /\ o.path = output_dir \o <<"/">> \o <<"p", "r", "o", "c", "e", "s", "s", "e", "d", "_">> \o n
                  /\ o.format = "JPEG" <=> C4_IsJpgName(n)
        /\ o.format \in {"JPEG", "PNG"}
        /\ image_path = <<"f", "o", "o", ".", "j", "p", "g">> => o.format = "JPEG"
        /\ image_path = <<"p", "i", "c", "s", "/", "F", "O", "O", ".", "J", "P", "G">> => o.format = "JPEG"
        /\ image_path = <<"f", "o", "o", ".", "p", "n", "g">> => o.format = "PNG"
        /\ image_path = <<"f", "o", "o", ".", "j", "p", "e", "g">> => o.format = "PNG"

\* FOO.JPG, decoded as a PNG, is saved as a JPEG
C4_Witness ==
    \E o \in outputs :
        /\ image_path = <<"p", "i", "c", "s", "/", "F", "O", "O", ".", "J", "P", "G">>
        /\ Source.format = "PNG"
        /\ o.format = "JPEG"

\* C5: no exception leaves process_image: whichever step raises, the handler
\* is entered with nothing printed and nothing saved, prints exactly the error
\* line with the path and the exception's text, saves nothing, and returns.
C5_ExceptionsCaught ==
    /\ [](pc \notin {"propagated", "main_raised"})
    /\ [](pc = "pi_except" => console = <<>> /\ outputs = {} /\ exc # "none")
    /\ [](pc = "idle" /\ outputs # {} => console = <<SuccessLine(PathName(image_path), <<"p", "r", "o", "c", "e", "s", "s", "e", "d", "_">> \o PathName(image_path))>>)
    /\ [][(exc = "none" /\ exc' # "none") => pc' = "pi_except"]_vars
    /\ [][pc = "pi_except" =>
            /\ console' = Append(console, [kind |-> "error", path |-> image_path, text |-> exc])
            /\ outputs' = outputs
            /\ pc' = "idle"]_vars

\* the call has returned after save raised: one error line, no file
C5_Witness ==
    /\ pc = "idle"
    /\ outputs = {}
    /\ Len(console) = 1
    /\ console[1].kind = "error"
    /\ console[1].text = "save failed"

Stopped == pc \in {"main_done", "main_raised"}

\* C6: main prints a "not found" line for every listed filename missing from
\* the image directory, never calls process_image on it and saves nothing for it.
C6_MissingReported ==
    /\ InBody => image_path \in DOMAIN files
    /\ \A o \in outputs : \E q \in DOMAIN files :
            o.path = PathJoin(main_output_dir, OutputFilename(q))
    /\ Stopped =>
            \A k \in 1..Len(project_images) :
                PathJoin(image_dir, project_images[k]) \notin DOMAIN files =>
                    \E j \in 1..Len(console) : console[j] = NotFoundLine(project_images[k])

\* C7: whatever happens to each file, main handles every filename and then
\* returns normally: the run stops only after the last filename, and no
\* exception leaves it.
C7_BatchCompletes ==
    Stopped =>
        /\ pc = "main_done"
        /\ i = Len(project_images) + 1
        /\ Len(console) = Len(project_images)

C8_LineIsAbout(line, name) ==
    \/ line.kind = "success" /\ line.input = name
    \/ line.kind = "error" /\ line.path = PathJoin(image_dir, name)
    \/ line.kind = "notfound" /\ line.name = name

\* C8: the filenames are handled one after another in list order, a file's
\* line printed before the next file's check, and each filename yields
\* exactly one line: success, error or not found.
C8_OneLineEachInOrder ==
    /\ Len(console) <= Len(project_images)
    /\ \A k \in 1..Len(console) : C8_LineIsAbout(console[k], project_images[k])
    /\ (pc = "main_loop" \/ InBody) => Len(console) = i - 1
    /\ Stopped => Len(console) = Len(project_images)

\* C9: once the directory step is over the output directory exists, and the
\* step raised nothing, whatever was on disk.
C9_OutputDirEnsured ==
    pc # "main_mkdir" => (processed = "dir" /\ pc # "main_raised")

\* C10: for positive sizes the size to resize to is a non-empty rectangle
\* inside the canvas, 1 <= new_width <= target_width and 1 <= new_height <=
\* target_height, so the paste offsets are not negative.
C10_ResizedFits ==
    (Sized /\ target_width >= 1 /\ target_height >= 1) =>
        /\ 1 <= new_width /\ new_width <= target_width
        /\ 1 <= new_height /\ new_height <= target_height
        /\ pc = "pi_save" => (new_img.paste[1] >= 0 /\ new_img.paste[2] >= 0)


====
